---- MODULE Spec2Model ----
(***************************************************************************)
(* Model of ipipe's Windows named-pipe handle, src/src/fifo_windows.rs.    *)
(*                                                                         *)
(* A Pipe carries two optional connections (handle: the writer side,       *)
(* listener: the reader side), a path and the is_closed flag.  The OS      *)
(* named-pipe primitive (connect, bind, accept, read, write, flush) is the *)
(* environment: every call into it has an outcome chosen by the            *)
(* environment (success, or an io::Error with or without an OS code), and  *)
(* the bytes written to a path and not yet read are kept in stream[path].  *)
(***************************************************************************)
EXTENDS Integers, Sequences, FiniteSets, TLC

\* ---------------------------------------------------------------- bounds
\* Number of Pipe values that can be in scope at once.
MaxHandles == 2
\* Number of bytes that can be in flight (written, unread) over all paths.
MaxStream == 1
\* Longest byte buffer / string written and largest size asked of a read.
MaxLen == 1

\* ------------------------------------------------------------- constants
\* The graceful-disconnect OS error code the read paths compare against.
BROKEN_PIPE == 109

Handles == 1..MaxHandles
\* Every Pipe value of the model names the same OS pipe, so that what one
\* handle writes another can read.
Paths == {"pipe_a"}
\* OnCleanup, the argument of open/create.
OnCleanup == {"Delete", "NoDelete"}
\* Byte values callers write with write_byte / write_bytes.
DataBytes == {1}
\* Code points callers put in strings (U+00E9, two bytes in UTF-8).
Chars == {233}
\* OS error codes other than 109 (ERROR_ACCESS_DENIED).
OtherCodes == {5}

SeqsUpTo(S, n) == UNION {[1..k -> S] : k \in 0..n}

Min(a, b) == IF a <= b THEN a ELSE b

\* ------------------------------------------------------------ io::Error
\* An io::Error of the OS primitive: raw_os_error() is Some(code) when
\* has_code, None otherwise.
IoErrors ==
    {[variant |-> "io", has_code |-> TRUE, code |-> c] : c \in {BROKEN_PIPE} \cup OtherCodes}
    \cup {[variant |-> "io", has_code |-> FALSE, code |-> 0]}

NoError == [variant |-> "none", has_code |-> FALSE, code |-> 0]

\* Outcome of a read or a flush of the OS primitive.
IoOutcomes ==
    {[ok |-> TRUE, e |-> NoError]} \cup {[ok |-> FALSE, e |-> e] : e \in IoErrors}

\* Outcome of connect, bind or accept: success, or an OS error.
ConnOutcomes ==
    {[ok |-> TRUE, e |-> NoError]}
    \cup {[ok |-> FALSE, e |-> [variant |-> "io", has_code |-> TRUE, code |-> c]] : c \in OtherCodes}

\* Outcome of stream.write(buf): Ok(n) with n <= len(buf), or Err(e).
WriteOutcomes(buf) ==
    {[ok |-> TRUE, n |-> k, e |-> NoError] : k \in 0..Len(buf)}
    \cup {[ok |-> FALSE, n |-> 0, e |-> e] : e \in IoErrors}

\* Error::from(io::Error) of the crate (super::Error): wraps the io::Error,
\* keeping its OS code.
ErrorFrom(e) == [e EXCEPT !.variant = "Io"]

\* e.raw_os_error() is Some(err) and err as u32 != 109.  OS codes are
\* modelled as naturals, on which the cast to u32 is the identity.
IsOtherOsError(e) == e.has_code /\ e.code # BROKEN_PIPE

\* ------------------------------------------------------------- results
Ok(n, buf) == [ok |-> TRUE, err |-> NoError, n |-> n, buf |-> buf]
Err(e) == [ok |-> FALSE, err |-> e, n |-> 0, buf |-> <<>>]

\* What one operation did to the OS while it ran: the calls it made, and in
\* os the io::Error the OS gave it (NoError when every call succeeded).
NoEff == [connects |-> 0, binds |-> 0, accepts |-> 0, disconnects |-> 0,
          reads |-> 0, writes |-> 0, flushes |-> 0, closes |-> 0, removes |-> 0,
          os |-> NoError]

\* ---------------------------------------------------------------- Pipe
\* struct Pipe: handle and listener are Option<PipeStream> (TRUE = Some).
NoPipe == [handle |-> FALSE, listener |-> FALSE, path |-> "pipe_a", is_closed |-> FALSE]

open_connects(path, cleanup) ==
    [handle |-> TRUE, listener |-> FALSE, path |-> path, is_closed |-> FALSE]

\* Pipe::open: the OnCleanup argument is bound to `_` and not kept.
open(path, cleanup) ==
    [handle |-> FALSE, listener |-> FALSE, path |-> path, is_closed |-> FALSE]

\* Pipe::create: a path built from the process id and 15 random characters
\* (here: the path the random source picked), then Pipe::open.
create(random_path, delete_on_drop) == open(random_path, delete_on_drop)

close_keeps_writer(p) ==
    [pipe |-> [p EXCEPT !.is_closed = TRUE, !.listener = FALSE],
     res |-> Ok(0, <<>>),
     eff |-> [NoEff EXCEPT !.disconnects = IF p.listener THEN 1 ELSE 0]]

close_keeps_listener(p) ==
    [pipe |-> [p EXCEPT !.is_closed = TRUE, !.handle = FALSE],
     res |-> Ok(0, <<>>),
     eff |-> [NoEff EXCEPT !.disconnects = IF p.handle THEN 1 ELSE 0]]

\* Pipe::close
close(p) ==
    [pipe |-> [p EXCEPT !.is_closed = TRUE, !.handle = FALSE, !.listener = FALSE],
     res |-> Ok(0, <<>>),
     eff |-> [NoEff EXCEPT !.disconnects =
                 (IF p.handle THEN 1 ELSE 0) + (IF p.listener THEN 1 ELSE 0)]]

init_reader_retries(p, conn) ==
    IF ~p.handle
    THEN IF conn.ok
         THEN [pipe |-> [p EXCEPT !.handle = TRUE], ok |-> TRUE, err |-> NoError,
               eff |-> [NoEff EXCEPT !.connects = 1]]
         ELSE [pipe |-> p, ok |-> FALSE, err |-> ErrorFrom(conn.e),
               eff |-> [NoEff EXCEPT !.connects = 2, !.os = conn.e]]
    ELSE [pipe |-> p, ok |-> TRUE, err |-> NoError, eff |-> NoEff]

init_reader_always_connects(p, conn) ==
    IF conn.ok
    THEN [pipe |-> [p EXCEPT !.handle = TRUE], ok |-> TRUE, err |-> NoError,
          eff |-> [NoEff EXCEPT !.connects = 1]]
    ELSE [pipe |-> p, ok |-> FALSE, err |-> ErrorFrom(conn.e),
          eff |-> [NoEff EXCEPT !.connects = 1, !.os = conn.e]]

init_reader_refuses_closed(p, conn) ==
    IF p.is_closed
    THEN [pipe |-> p, ok |-> FALSE,
          err |-> ErrorFrom([variant |-> "io", has_code |-> FALSE, code |-> 0]),
          eff |-> NoEff]
    ELSE IF ~p.handle
    THEN IF conn.ok
         THEN [pipe |-> [p EXCEPT !.handle = TRUE], ok |-> TRUE, err |-> NoError,
               eff |-> [NoEff EXCEPT !.connects = 1]]
         ELSE [pipe |-> p, ok |-> FALSE, err |-> ErrorFrom(conn.e),
               eff |-> [NoEff EXCEPT !.connects = 1, !.os = conn.e]]
    ELSE [pipe |-> p, ok |-> TRUE, err |-> NoError, eff |-> NoEff]

\* Pipe::init_reader: connect as a client unless the writer slot is filled.
init_reader(p, conn) ==
    IF ~p.handle
    THEN IF conn.ok
         THEN [pipe |-> [p EXCEPT !.handle = TRUE], ok |-> TRUE, err |-> NoError,
               eff |-> [NoEff EXCEPT !.connects = 1]]
         ELSE [pipe |-> p, ok |-> FALSE, err |-> ErrorFrom(conn.e),
               eff |-> [NoEff EXCEPT !.connects = 1, !.os = conn.e]]
    ELSE [pipe |-> p, ok |-> TRUE, err |-> NoError, eff |-> NoEff]

init_listener_reopens(p, bnd, acc) ==
    IF ~p.listener
    THEN IF ~bnd.ok
         THEN [pipe |-> p, ok |-> FALSE, err |-> ErrorFrom(bnd.e),
               eff |-> [NoEff EXCEPT !.binds = 1, !.os = bnd.e]]
         ELSE IF ~acc.ok
         THEN [pipe |-> p, ok |-> FALSE, err |-> ErrorFrom(acc.e),
               eff |-> [NoEff EXCEPT !.binds = 1, !.accepts = 1, !.os = acc.e]]
         ELSE [pipe |-> [p EXCEPT !.listener = TRUE, !.is_closed = FALSE],
               ok |-> TRUE, err |-> NoError,
               eff |-> [NoEff EXCEPT !.binds = 1, !.accepts = 1]]
    ELSE [pipe |-> p, ok |-> TRUE, err |-> NoError, eff |-> NoEff]

init_listener_fills_writer_slot(p, bnd, acc) ==
    IF ~p.listener
    THEN IF ~bnd.ok
         THEN [pipe |-> p, ok |-> FALSE, err |-> ErrorFrom(bnd.e),
               eff |-> [NoEff EXCEPT !.binds = 1, !.os = bnd.e]]
         ELSE IF ~acc.ok
         THEN [pipe |-> p, ok |-> FALSE, err |-> ErrorFrom(acc.e),
               eff |-> [NoEff EXCEPT !.binds = 1, !.accepts = 1, !.os = acc.e]]
         ELSE [pipe |-> [p EXCEPT !.handle = TRUE], ok |-> TRUE, err |-> NoError,
               eff |-> [NoEff EXCEPT !.binds = 1, !.accepts = 1]]
    ELSE [pipe |-> p, ok |-> TRUE, err |-> NoError, eff |-> NoEff]

\* Pipe::init_listener: bind, then accept one peer, unless the listener slot
\* is filled.
init_listener(p, bnd, acc) ==
    IF ~p.listener
    THEN IF ~bnd.ok
         THEN [pipe |-> p, ok |-> FALSE, err |-> ErrorFrom(bnd.e),
               eff |-> [NoEff EXCEPT !.binds = 1, !.os = bnd.e]]
         ELSE IF ~acc.ok
         THEN [pipe |-> p, ok |-> FALSE, err |-> ErrorFrom(acc.e),
               eff |-> [NoEff EXCEPT !.binds = 1, !.accepts = 1, !.os = acc.e]]
         ELSE [pipe |-> [p EXCEPT !.listener = TRUE], ok |-> TRUE, err |-> NoError,
               eff |-> [NoEff EXCEPT !.binds = 1, !.accepts = 1]]
    ELSE [pipe |-> p, ok |-> TRUE, err |-> NoError, eff |-> NoEff]

AddEff(a, b) ==
    [connects |-> a.connects + b.connects, binds |-> a.binds + b.binds,
     accepts |-> a.accepts + b.accepts, disconnects |-> a.disconnects + b.disconnects,
     reads |-> a.reads + b.reads, writes |-> a.writes + b.writes,
     flushes |-> a.flushes + b.flushes, closes |-> a.closes + b.closes,
     removes |-> a.removes + b.removes,
     os |-> IF a.os # NoError THEN a.os ELSE b.os]

\* ------------------------------------------------------------- writing
write_bytes_forgives_109(p, buf, conn, wr, st) ==
    LET r == init_reader(p, conn) IN
    IF ~r.ok
    THEN [pipe |-> r.pipe, res |-> Err(r.err), stream |-> st, eff |-> r.eff]
    ELSE IF wr.ok
    THEN [pipe |-> r.pipe, res |-> Ok(wr.n, <<>>),
          stream |-> st \o SubSeq(buf, 1, wr.n), eff |-> [r.eff EXCEPT !.writes = 1]]
    ELSE IF IsOtherOsError(wr.e)
    THEN [pipe |-> r.pipe, res |-> Err(ErrorFrom(wr.e)), stream |-> st,
          eff |-> [r.eff EXCEPT !.writes = 1, !.os = wr.e]]
    ELSE [pipe |-> r.pipe, res |-> Ok(0, <<>>), stream |-> st,
          eff |-> [r.eff EXCEPT !.writes = 1, !.os = wr.e]]

\* Pipe::write_bytes.  st is the content of the path's stream; wr the
\* outcome of stream.write(buf).
write_bytes(p, buf, conn, wr, st) ==
    LET r == init_reader(p, conn) IN
    IF ~r.ok
    THEN [pipe |-> r.pipe, res |-> Err(r.err), stream |-> st, eff |-> r.eff]
    ELSE IF wr.ok
    THEN [pipe |-> r.pipe, res |-> Ok(wr.n, <<>>),
          stream |-> st \o SubSeq(buf, 1, wr.n), eff |-> [r.eff EXCEPT !.writes = 1]]
    ELSE [pipe |-> r.pipe, res |-> Err(ErrorFrom(wr.e)), stream |-> st,
          eff |-> [r.eff EXCEPT !.writes = 1, !.os = wr.e]]

\* Pipe::write_byte
write_byte(p, b, conn, wr, st) == write_bytes(p, <<b>>, conn, wr, st)

\* str::as_bytes: the UTF-8 encoding (code points below U+0800).
Utf8(c) == IF c < 128 THEN <<c>> ELSE <<192 + (c \div 64), 128 + (c % 64)>>

RECURSIVE AsBytes(_)
AsBytes(s) == IF s = <<>> THEN <<>> ELSE Utf8(Head(s)) \o AsBytes(Tail(s))

\* Pipe::write_string: init_reader, then write_bytes (whose own init_reader
\* finds the writer slot filled).
write_string(p, s, conn, wr, st) ==
    LET r == init_reader(p, conn) IN
    IF ~r.ok
    THEN [pipe |-> r.pipe, res |-> Err(r.err), stream |-> st, eff |-> r.eff]
    ELSE LET w == write_bytes(r.pipe, AsBytes(s), conn, wr, st) IN
         [w EXCEPT !.eff = AddEff(r.eff, w.eff)]

\* ------------------------------------------------------------- reading
\* The buffer after a read put `data` at its front.
Fill(buf, data) == data \o SubSeq(buf, Len(data) + 1, Len(buf))

\* PipeStream::read on a buffer of length k: takes what is there, up to k.
ListenerRead(st, k, rd) ==
    IF rd.ok
    THEN LET n == Min(k, Len(st)) IN
         [ok |-> TRUE, n |-> n, data |-> SubSeq(st, 1, n),
          rest |-> SubSeq(st, n + 1, Len(st)), e |-> NoError, reads |-> 1]
    ELSE [ok |-> FALSE, n |-> 0, data |-> <<>>, rest |-> st, e |-> rd.e, reads |-> 1]

\* io::ErrorKind::UnexpectedEof, which carries no OS code.
UnexpectedEof == [variant |-> "io", has_code |-> FALSE, code |-> 0]

\* Read::read_exact on a buffer of length k: an empty buffer is filled
\* without reading; otherwise reads until k bytes arrived, and fails with
\* UnexpectedEof when the stream ends first.
ReadExact(st, k, rd) ==
    IF k = 0
    THEN [ok |-> TRUE, n |-> 0, data |-> <<>>, rest |-> st, e |-> NoError, reads |-> 0]
    ELSE IF ~rd.ok
    THEN [ok |-> FALSE, n |-> 0, data |-> <<>>, rest |-> st, e |-> rd.e, reads |-> 1]
    ELSE IF Len(st) >= k
    THEN [ok |-> TRUE, n |-> k, data |-> SubSeq(st, 1, k),
          rest |-> SubSeq(st, k + 1, Len(st)), e |-> NoError, reads |-> 1]
    ELSE [ok |-> FALSE, n |-> Len(st), data |-> st, rest |-> <<>>,
          e |-> UnexpectedEof, reads |-> 1]

read_byte_propagates_every_error(p, bnd, acc, rd, st) ==
    LET r == init_listener(p, bnd, acc) IN
    IF ~r.ok
    THEN [pipe |-> r.pipe, res |-> Err(r.err), stream |-> st, eff |-> r.eff]
    ELSE LET buf == <<0>>
             got == ListenerRead(st, Len(buf), rd)
             eff == [r.eff EXCEPT !.reads = got.reads, !.os = got.e]
         IN IF ~got.ok
            THEN [pipe |-> r.pipe, res |-> Err(ErrorFrom(got.e)),
                  stream |-> got.rest, eff |-> eff]
            ELSE [pipe |-> r.pipe, res |-> Ok(Fill(buf, got.data)[1], <<>>),
                  stream |-> got.rest, eff |-> eff]

\* Pipe::read_byte
read_byte(p, bnd, acc, rd, st) ==
    LET r == init_listener(p, bnd, acc) IN
    IF ~r.ok
    THEN [pipe |-> r.pipe, res |-> Err(r.err), stream |-> st, eff |-> r.eff]
    ELSE LET buf == <<0>>
             got == ListenerRead(st, Len(buf), rd)
             eff == [r.eff EXCEPT !.reads = got.reads, !.os = got.e]
         IN IF ~got.ok /\ IsOtherOsError(got.e)
            THEN [pipe |-> r.pipe, res |-> Err(ErrorFrom(got.e)),
                  stream |-> got.rest, eff |-> eff]
            ELSE [pipe |-> r.pipe, res |-> Ok(Fill(buf, got.data)[1], <<>>),
                  stream |-> got.rest, eff |-> eff]

\* Vec::with_capacity(size): room for size bytes, length 0.
VecWithCapacity(size) == <<>>

\* Pipe::read_bytes
read_bytes(p, size, bnd, acc, rd, st) ==
    LET r == init_listener(p, bnd, acc) IN
    IF ~r.ok
    THEN [pipe |-> r.pipe, res |-> Err(r.err), stream |-> st, eff |-> r.eff]
    ELSE LET buf == VecWithCapacity(size)
             got == ReadExact(st, Len(buf), rd)
             eff == [r.eff EXCEPT !.reads = got.reads, !.os = got.e]
         IN IF ~got.ok /\ IsOtherOsError(got.e)
            THEN [pipe |-> r.pipe, res |-> Err(ErrorFrom(got.e)),
                  stream |-> got.rest, eff |-> eff]
            ELSE [pipe |-> r.pipe, res |-> Ok(Len(Fill(buf, got.data)), Fill(buf, got.data)),
                  stream |-> got.rest, eff |-> eff]

\* String::from_utf8_lossy: decodes one- and two-byte sequences, and puts
\* U+FFFD for a byte that starts no valid sequence.
RECURSIVE FromUtf8Lossy(_)
FromUtf8Lossy(buf) ==
    IF buf = <<>> THEN <<>>
    ELSE LET b == Head(buf) IN
         IF b < 128 THEN <<b>> \o FromUtf8Lossy(Tail(buf))
         ELSE IF /\ b >= 194 /\ b <= 223 /\ Len(buf) >= 2
                 /\ buf[2] >= 128 /\ buf[2] <= 191
         THEN <<(b - 192) * 64 + (buf[2] - 128)>> \o FromUtf8Lossy(Tail(Tail(buf)))
         ELSE <<65533>> \o FromUtf8Lossy(Tail(buf))

\* Pipe::read_string: read_bytes, then the lossy decoding of the buffer
\* (res.buf holds the code points of the string, res.n their number).
read_string(p, size, bnd, acc, rd, st) ==
    LET r == read_bytes(p, size, bnd, acc, rd, st) IN
    IF r.res.ok
    THEN [r EXCEPT !.res = Ok(Len(FromUtf8Lossy(r.res.buf)), FromUtf8Lossy(r.res.buf))]
    ELSE r

read_propagates_uncoded(p, bytes, bnd, acc, rd, st) ==
    LET r == init_listener(p, bnd, acc) IN
    IF ~r.ok
    THEN [pipe |-> r.pipe, res |-> Err(r.err), stream |-> st, eff |-> r.eff]
    ELSE LET got == ListenerRead(st, Len(bytes), rd)
             eff == [r.eff EXCEPT !.reads = got.reads, !.os = got.e]
         IN IF ~got.ok
            THEN IF got.e.has_code /\ got.e.code = BROKEN_PIPE
                 THEN [pipe |-> r.pipe, res |-> Ok(0, bytes), stream |-> got.rest, eff |-> eff]
                 ELSE [pipe |-> r.pipe, res |-> Err(got.e), stream |-> got.rest, eff |-> eff]
            ELSE [pipe |-> r.pipe, res |-> Ok(got.n, Fill(bytes, got.data)),
                  stream |-> got.rest, eff |-> eff]

\* <Pipe as std::io::Read>::read on a caller's buffer `bytes`.
read(p, bytes, bnd, acc, rd, st) ==
    LET r == init_listener(p, bnd, acc) IN
    IF ~r.ok
    THEN [pipe |-> r.pipe, res |-> Err(r.err), stream |-> st, eff |-> r.eff]
    ELSE LET got == ListenerRead(st, Len(bytes), rd)
             eff == [r.eff EXCEPT !.reads = got.reads, !.os = got.e]
         IN IF ~got.ok
            THEN IF IsOtherOsError(got.e)
                 THEN [pipe |-> r.pipe, res |-> Err(got.e), stream |-> got.rest, eff |-> eff]
                 ELSE [pipe |-> r.pipe, res |-> Ok(0, bytes), stream |-> got.rest, eff |-> eff]
            ELSE [pipe |-> r.pipe, res |-> Ok(got.n, Fill(bytes, got.data)),
                  stream |-> got.rest, eff |-> eff]

\* ------------------------------------------------------------ flushing
flush_pipe_only_reconnects(p, conn, fl) ==
    LET out == IF ~p.handle
               THEN [pipe |-> p, ok |-> TRUE, err |-> NoError, eff |-> NoEff]
               ELSE LET r == init_reader([p EXCEPT !.handle = FALSE], conn) IN
                    [r EXCEPT !.eff.disconnects = 1]
    IN IF ~out.ok
       THEN [pipe |-> out.pipe, res |-> Err(out.err), eff |-> out.eff]
       ELSE IF out.pipe.listener
       THEN IF fl.ok
            THEN [pipe |-> out.pipe, res |-> Ok(0, <<>>),
                  eff |-> [out.eff EXCEPT !.flushes = 1]]
            ELSE [pipe |-> out.pipe, res |-> Err(ErrorFrom(fl.e)),
                  eff |-> [out.eff EXCEPT !.flushes = 1, !.os = fl.e]]
       ELSE [pipe |-> out.pipe, res |-> Ok(0, <<>>), eff |-> out.eff]

flush_pipe_restores_on_failure(p, conn, fl) ==
    LET out == IF ~p.handle
               THEN init_reader(p, conn)
               ELSE LET r == init_reader([p EXCEPT !.handle = FALSE], conn) IN
                    [r EXCEPT !.eff.disconnects = 1]
    IN IF ~out.ok
       THEN [pipe |-> p, res |-> Err(out.err), eff |-> out.eff]
       ELSE IF out.pipe.listener
       THEN IF fl.ok
            THEN [pipe |-> out.pipe, res |-> Ok(0, <<>>),
                  eff |-> [out.eff EXCEPT !.flushes = 1]]
            ELSE [pipe |-> out.pipe, res |-> Err(ErrorFrom(fl.e)),
                  eff |-> [out.eff EXCEPT !.flushes = 1, !.os = fl.e]]
       ELSE [pipe |-> out.pipe, res |-> Ok(0, <<>>), eff |-> out.eff]

flush_pipe_keeps_connection(p, conn, fl) ==
    LET out == init_reader(p, conn)
    IN IF ~out.ok
       THEN [pipe |-> out.pipe, res |-> Err(out.err), eff |-> out.eff]
       ELSE IF out.pipe.listener
       THEN IF fl.ok
            THEN [pipe |-> out.pipe, res |-> Ok(0, <<>>),
                  eff |-> [out.eff EXCEPT !.flushes = 1]]
            ELSE [pipe |-> out.pipe, res |-> Err(ErrorFrom(fl.e)),
                  eff |-> [out.eff EXCEPT !.flushes = 1, !.os = fl.e]]
       ELSE [pipe |-> out.pipe, res |-> Ok(0, <<>>), eff |-> out.eff]

\* Pipe::flush_pipe.  fl is the outcome of listener.flush().
flush_pipe(p, conn, fl) ==
    LET out == IF ~p.handle
               THEN init_reader(p, conn)
               ELSE LET r == init_reader([p EXCEPT !.handle = FALSE], conn) IN
                    [r EXCEPT !.eff.disconnects = 1]
    IN IF ~out.ok
       THEN [pipe |-> out.pipe, res |-> Err(out.err), eff |-> out.eff]
       ELSE IF out.pipe.listener
       THEN IF fl.ok
            THEN [pipe |-> out.pipe, res |-> Ok(0, <<>>),
                  eff |-> [out.eff EXCEPT !.flushes = 1]]
            ELSE [pipe |-> out.pipe, res |-> Err(ErrorFrom(fl.e)),
                  eff |-> [out.eff EXCEPT !.flushes = 1, !.os = fl.e]]
       ELSE [pipe |-> out.pipe, res |-> Ok(0, <<>>), eff |-> out.eff]

\* ----------------------------------------------------- discard and clone
drop_always_closes(p) ==
    LET c == [pipe |-> close(p).pipe, eff |-> [close(p).eff EXCEPT !.closes = 1]]
        left == (IF c.pipe.handle THEN 1 ELSE 0) + (IF c.pipe.listener THEN 1 ELSE 0)
    IN [pipe |-> c.pipe, eff |-> [c.eff EXCEPT !.disconnects = @ + left]]

\* <Pipe as Drop>::drop: close unless is_closed (close cannot fail, so the
\* eprintln! branch is never taken); the fields are then released, which
\* disconnects whatever connection is still there.  Nothing removes the OS
\* object.
drop(p) ==
    LET c == IF ~p.is_closed
             THEN [pipe |-> close(p).pipe, eff |-> [close(p).eff EXCEPT !.closes = 1]]
             ELSE [pipe |-> p, eff |-> NoEff]
        left == (IF c.pipe.handle THEN 1 ELSE 0) + (IF c.pipe.listener THEN 1 ELSE 0)
    IN [pipe |-> c.pipe, eff |-> [c.eff EXCEPT !.disconnects = @ + left]]

clone_copies_flag(p) ==
    [handle |-> FALSE, listener |-> FALSE, path |-> p.path, is_closed |-> p.is_closed]

\* <Pipe as Clone>::clone
clone(p) ==
    [handle |-> FALSE, listener |-> FALSE, path |-> p.path, is_closed |-> TRUE]

\* ---------------------------------------------------------------- state
VARIABLES
    pipes,   \* pipes[h]: the fields of Pipe value h
    live,    \* the Pipe values in scope
    made,    \* made[h]: how h came to be: the OnCleanup given to open/create, or "Clone"
    stream,  \* stream[path]: the bytes written to the path and not yet read
    last     \* the last operation: its name, receiver, result and OS effects

vars == <<pipes, live, made, stream, last>>

RECURSIVE TotalLen(_)
TotalLen(S) ==
    IF S = {} THEN 0
    ELSE LET x == CHOOSE y \in S : TRUE IN Len(stream[x]) + TotalLen(S \ {x})

\* Bytes in flight over all paths.
InFlight == TotalLen(Paths)

\* The slot a new Pipe value takes.
FreeSlot(h) == h \notin live /\ \A g \in Handles \ live : h <= g

\* arg: the size asked of a read, or the number of bytes given to a write.
Done(op, h, new, arg, res, eff) ==
    [op |-> op, h |-> h, new |-> new, arg |-> arg,
     who |-> IF op = "drop" THEN made[h] ELSE "none", res |-> res, eff |-> eff]

Init ==
    /\ pipes = [h \in Handles |-> NoPipe]
    /\ live = {}
    /\ made = [h \in Handles |-> "none"]
    /\ stream = [q \in Paths |-> <<>>]
    /\ last = [op |-> "init", h |-> 0, new |-> 0, arg |-> 0, who |-> "none",
               res |-> Ok(0, <<>>), eff |-> NoEff]

\* What a method call on h leaves behind: r is the record the method gives.
Method(op, h, arg, r) ==
    /\ pipes' = [pipes EXCEPT ![h] = r.pipe]
    /\ last' = Done(op, h, 0, arg, r.res, r.eff)
    /\ UNCHANGED <<live, made>>

\* A method that moves bytes: the pipe's buffer must have room for them.
Transfer(op, h, arg, r) ==
    /\ InFlight - Len(stream[pipes[h].path]) + Len(r.stream) <= MaxStream
    /\ stream' = [stream EXCEPT ![pipes[h].path] = r.stream]
    /\ Method(op, h, arg, r)

\* The outcomes the environment can give the calls an operation makes: a
\* call that is not made (the slot is filled, or an earlier call failed) has
\* the one outcome Success.
Success == [ok |-> TRUE, e |-> NoError]

After(made_call) == IF made_call THEN IoOutcomes ELSE {Success}

Connected(made_call) == IF made_call THEN ConnOutcomes ELSE {Success}

Written(made_call, buf) ==
    IF made_call THEN WriteOutcomes(buf) ELSE {[ok |-> TRUE, n |-> 0, e |-> NoError]}

\* The stream of the path h names.
StreamOf(h) == stream[pipes[h].path]

Open(h) ==
    \E path \in Paths, cleanup \in OnCleanup :
       /\ FreeSlot(h)
       /\ pipes' = [pipes EXCEPT ![h] = open(path, cleanup)]
       /\ live' = live \cup {h}
       /\ made' = [made EXCEPT ![h] = cleanup]
       /\ last' = Done("open", 0, h, 0, Ok(0, <<>>), NoEff)
       /\ UNCHANGED stream

Create(h) ==
    \E random_path \in Paths, delete_on_drop \in OnCleanup :
       /\ FreeSlot(h)
       /\ pipes' = [pipes EXCEPT ![h] = create(random_path, delete_on_drop)]
       /\ live' = live \cup {h}
       /\ made' = [made EXCEPT ![h] = delete_on_drop]
       /\ last' = Done("create", 0, h, 0, Ok(0, <<>>), NoEff)
       /\ UNCHANGED stream

Close(h) ==
    /\ h \in live
    /\ Method("close", h, 0, close(pipes[h]))
    /\ UNCHANGED stream

WriteByte(h) ==
    \E b \in DataBytes : \E conn \in Connected(~pipes[h].handle) :
       \E wr \in Written(conn.ok, <<b>>) :
          /\ h \in live
          /\ Transfer("write_byte", h, 1, write_byte(pipes[h], b, conn, wr, StreamOf(h)))

WriteBytes(h) ==
    \E buf \in SeqsUpTo(DataBytes, MaxLen) : \E conn \in Connected(~pipes[h].handle) :
       \E wr \in Written(conn.ok, buf) :
          /\ h \in live
          /\ Transfer("write_bytes", h, Len(buf), write_bytes(pipes[h], buf, conn, wr, StreamOf(h)))

WriteString(h) ==
    \E s \in SeqsUpTo(Chars, MaxLen) : \E conn \in Connected(~pipes[h].handle) :
       \E wr \in Written(conn.ok, AsBytes(s)) :
          /\ h \in live
          /\ Transfer("write_string", h, Len(AsBytes(s)), write_string(pipes[h], s, conn, wr, StreamOf(h)))

ReadByte(h) ==
    \E bnd \in Connected(~pipes[h].listener) :
       \E acc \in Connected(~pipes[h].listener /\ bnd.ok) :
          \E rd \in After(bnd.ok /\ acc.ok) :
             /\ h \in live
             /\ Transfer("read_byte", h, 1, read_byte(pipes[h], bnd, acc, rd, StreamOf(h)))

ReadBytes(h) ==
    \E size \in 0..MaxLen : \E bnd \in Connected(~pipes[h].listener) :
       \E acc \in Connected(~pipes[h].listener /\ bnd.ok) :
          \E rd \in After(bnd.ok /\ acc.ok /\ Len(VecWithCapacity(size)) > 0) :
             /\ h \in live
             /\ Transfer("read_bytes", h, size,
                         read_bytes(pipes[h], size, bnd, acc, rd, StreamOf(h)))

ReadString(h) ==
    \E size \in 0..MaxLen : \E bnd \in Connected(~pipes[h].listener) :
       \E acc \in Connected(~pipes[h].listener /\ bnd.ok) :
          \E rd \in After(bnd.ok /\ acc.ok /\ Len(VecWithCapacity(size)) > 0) :
             /\ h \in live
             /\ Transfer("read_string", h, size,
                         read_string(pipes[h], size, bnd, acc, rd, StreamOf(h)))

\* The caller's buffer starts zeroed.
Read(h) ==
    \E k \in 0..MaxLen : \E bnd \in Connected(~pipes[h].listener) :
       \E acc \in Connected(~pipes[h].listener /\ bnd.ok) :
          \E rd \in After(bnd.ok /\ acc.ok) :
             /\ h \in live
             /\ Transfer("read", h, k,
                         read(pipes[h], [i \in 1..k |-> 0], bnd, acc, rd, StreamOf(h)))

FlushPipe(h) ==
    \E conn \in ConnOutcomes : \E fl \in After(conn.ok /\ pipes[h].listener) :
       /\ h \in live
       /\ Method("flush_pipe", h, 0, flush_pipe(pipes[h], conn, fl))
       /\ UNCHANGED stream

\* h goes out of scope.
Drop(h) ==
    /\ h \in live
    /\ pipes' = [pipes EXCEPT ![h] = NoPipe]
    /\ live' = live \ {h}
    /\ made' = [made EXCEPT ![h] = "none"]
    /\ last' = Done("drop", h, 0, 0, Ok(0, <<>>), drop(pipes[h]).eff)
    /\ UNCHANGED stream

Clone(h) ==
    \E c \in Handles :
       /\ h \in live
       /\ FreeSlot(c)
       /\ pipes' = [pipes EXCEPT ![c] = clone(pipes[h])]
       /\ live' = live \cup {c}
       /\ made' = [made EXCEPT ![c] = "Clone"]
       /\ last' = Done("clone", h, c, 0, Ok(0, <<>>), NoEff)
       /\ UNCHANGED stream

\* Every operation, on every Pipe value in scope.
Next ==
    \/ \E h \in Handles : Open(h)
    \/ \E h \in Handles : Create(h)
    \/ \E h \in Handles : Close(h)
    \/ \E h \in Handles : WriteByte(h)
    \/ \E h \in Handles : WriteBytes(h)
    \/ \E h \in Handles : WriteString(h)
    \/ \E h \in Handles : ReadByte(h)
    \/ \E h \in Handles : ReadBytes(h)
    \/ \E h \in Handles : ReadString(h)
    \/ \E h \in Handles : Read(h)
    \/ \E h \in Handles : FlushPipe(h)
    \/ \E h \in Handles : Drop(h)
    \/ \E h \in Handles : Clone(h)

\* The life of one Pipe value: it is opened or created, used through every
\* method, and dropped, with no other Pipe value in scope.
NextSingle ==
    \/ \E h \in Handles : live = {} /\ Open(h)
    \/ \E h \in Handles : live = {} /\ Create(h)
    \/ \E h \in Handles : Close(h)
    \/ \E h \in Handles : WriteByte(h)
    \/ \E h \in Handles : WriteBytes(h)
    \/ \E h \in Handles : WriteString(h)
    \/ \E h \in Handles : ReadByte(h)
    \/ \E h \in Handles : ReadBytes(h)
    \/ \E h \in Handles : ReadString(h)
    \/ \E h \in Handles : Read(h)
    \/ \E h \in Handles : FlushPipe(h)
    \/ \E h \in Handles : Drop(h)

\* Pipe values opened on the path, one writing buffers and another reading
\* them.
NextPair ==
    \/ \E h \in Handles : Open(h)
    \/ \E h \in Handles : Create(h)
    \/ \E h \in Handles : WriteBytes(h)
    \/ \E h \in Handles : ReadBytes(h)
    \/ \E h \in Handles : Drop(h)

\* Pipe values and their clones, connecting and disconnecting with no byte
\* written.
NextLife ==
    \/ \E h \in Handles : Open(h)
    \/ \E h \in Handles : Create(h)
    \/ \E h \in Handles : Close(h)
    \/ \E h \in Handles : ReadByte(h)
    \/ \E h \in Handles : FlushPipe(h)
    \/ \E h \in Handles : Drop(h)
    \/ \E h \in Handles : Clone(h)

\* One Pipe value and the clones taken of it, two values in scope at most:
\* the clones write bytes and buffers, read through every read method and
\* flush; every value can be closed, cloned and dropped.
NextClone ==
    \/ \E h \in Handles : live = {} /\ Open(h)
    \/ \E h \in Handles : live = {} /\ Create(h)
    \/ \E h \in Handles : Cardinality(live) < 2 /\ Clone(h)
    \/ \E h \in Handles : Close(h)
    \/ \E h \in Handles : made[h] = "Clone" /\ WriteByte(h)
    \/ \E h \in Handles : made[h] = "Clone" /\ WriteBytes(h)
    \/ \E h \in Handles : made[h] = "Clone" /\ ReadByte(h)
    \/ \E h \in Handles : made[h] = "Clone" /\ ReadBytes(h)
    \/ \E h \in Handles : made[h] = "Clone" /\ ReadString(h)
    \/ \E h \in Handles : made[h] = "Clone" /\ Read(h)
    \/ \E h \in Handles : made[h] = "Clone" /\ FlushPipe(h)
    \/ \E h \in Handles : Drop(h)

Spec == Init /\ [][Next]_vars

SpecSingle == Init /\ [][NextSingle]_vars

SpecPair == Init /\ [][NextPair]_vars

SpecLife == Init /\ [][NextLife]_vars

SpecClone == Init /\ [][NextClone]_vars

\* ---------------------------------------------------------------- claims
WriteOps == {"write_byte", "write_bytes", "write_string"}
ReadOps == {"read_byte", "read_bytes", "read_string", "read"}

\* h was given to close(): its flag is set and it is no clone (a clone is
\* born with the flag set).
WasClosed(h) == h \in live /\ made[h] # "Clone" /\ pipes[h].is_closed

\* C1, as stated: once close() has been called on a handle, both of its
\* connection slots are absent in every later state, whatever is called on it.
C1_ClosedNeverReconnects ==
    \A h \in Handles : WasClosed(h) => ~pipes[h].handle /\ ~pipes[h].listener

\* C1, amended: close() leaves both slots absent and the flag set, and the
\* flag stays set; on a closed handle the writer slot is filled again only by
\* the lazy connect of a write or of flush_pipe, and the listener slot only by
\* the lazy bind-and-accept of a read.
C1_ClosedReconnectsLazily ==
    [][/\ last'.op = "close" =>
             /\ pipes'[last'.h].is_closed
             /\ ~pipes'[last'.h].handle
             /\ ~pipes'[last'.h].listener
       /\ \A h \in Handles :
             (WasClosed(h) /\ h \in live') =>
                /\ pipes'[h].is_closed
                /\ (pipes'[h].handle /\ ~pipes[h].handle) =>
                      /\ last'.h = h
                      /\ last'.op \in WriteOps \cup {"flush_pipe"}
                      /\ last'.eff.connects = 1
                /\ (pipes'[h].listener /\ ~pipes[h].listener) =>
                      /\ last'.h = h
                      /\ last'.op \in ReadOps
                      /\ last'.eff.accepts = 1]_vars

\* A write on a handle that close() was called on has connected it again.
C1_Witness ==
    /\ last.op \in WriteOps
    /\ WasClosed(last.h)
    /\ pipes[last.h].handle
    /\ last.eff.connects = 1
    /\ last.res.ok

\* C2: close() returns success from any state of the handle and leaves the
\* flag set and both connections absent; a second close() right after the
\* first also returns success and changes no field of the handle.
C2_CloseIdempotent ==
    [][last'.op = "close" =>
          /\ last'.res.ok
          /\ pipes'[last'.h].is_closed
          /\ ~pipes'[last'.h].handle
          /\ ~pipes'[last'.h].listener
          /\ (last.op = "close" /\ last.h = last'.h) =>
                /\ pipes' = pipes
                /\ live' = live
                /\ stream' = stream]_vars

\* close() has acted on a handle that held both connections.
C2_Witness ==
    /\ last.op = "close"
    /\ last.eff.disconnects = 2
    /\ last.res.ok
    /\ pipes[last.h].is_closed

\* C3: clone gives a new Pipe value with the path of the original, no writer
\* connection, no listener connection and the flag set, and changes no field
\* of the original (nor of any other Pipe value).
C3_CloneIsFreshAndClosed ==
    [][last'.op = "clone" =>
          /\ last'.new \notin live
          /\ live' = live \cup {last'.new}
          /\ pipes'[last'.new] = [handle |-> FALSE, listener |-> FALSE,
                                  path |-> pipes[last'.h].path, is_closed |-> TRUE]
          /\ \A g \in Handles \ {last'.new} : pipes'[g] = pipes[g]]_vars

\* An open handle holding both connections was cloned.
C3_Witness ==
    /\ last.op = "clone"
    /\ pipes[last.h].handle
    /\ pipes[last.h].listener
    /\ ~pipes[last.h].is_closed
    /\ pipes[last.new].is_closed
    /\ ~pipes[last.new].handle
    /\ ~pipes[last.new].listener

\* C4: the discard of a clone never removes the OS pipe object, and the
\* discard of an original built with the deleting policy and not closed
\* beforehand (so that the discard itself calls close) removes it.
C4_OnlyTheOriginalDeletes ==
    last.op = "drop" =>
       /\ last.who = "Clone" => last.eff.removes = 0
       /\ (last.who = "Delete" /\ last.eff.closes = 1) => last.eff.removes = 1

\* C5: the policy given to open/create selects what the discard of the handle
\* does: with the deleting policy the OS pipe object is removed, with the
\* non-deleting policy it is left in place.
C5_PolicySelectsDiscard ==
    last.op = "drop" =>
       /\ last.who = "Delete" => last.eff.removes = 1
       /\ last.who = "NoDelete" => last.eff.removes = 0

\* C6: after write_bytes wrote b whole on one handle (the stream of the path
\* now holds b), read_bytes(len(b)) on another handle opened on the same path
\* returns exactly b and takes exactly len(b) bytes from the stream.
C6_RoundTrip ==
    [][(/\ last.op = "write_bytes"
        /\ last.res.ok
        /\ last.res.n = last.arg
        /\ Len(stream[pipes[last.h].path]) = last.arg
        /\ last'.op = "read_bytes"
        /\ last'.h # last.h
        /\ made[last'.h] # "Clone"
        /\ pipes[last'.h].path = pipes[last.h].path
        /\ last'.arg = last.arg
        /\ last'.res.ok)
       => /\ last'.res.buf = stream[pipes[last.h].path]
          /\ Len(last'.res.buf) = last.arg
          /\ stream'[pipes[last.h].path] = <<>>]_vars

\* The underlying read of the last call failed with the io::Error e.
ReadFailed(op) == last.op = op /\ last.eff.reads = 1 /\ last.eff.os # NoError

\* C7, as stated: when the underlying read of read_byte fails with code 109
\* the call returns Ok(0); for every other failure, with another OS code or
\* with no OS code, it returns that error.
C7_ReadByteForgivesOnly109 ==
    ReadFailed("read_byte") =>
       IF last.eff.os.has_code /\ last.eff.os.code = BROKEN_PIPE
       THEN last.res.ok /\ last.res.n = 0
       ELSE ~last.res.ok /\ last.res.err = ErrorFrom(last.eff.os)

\* C7, amended: when the underlying read of read_byte fails with code 109, or
\* with an io::Error that carries no OS code, the call returns Ok(0); when it
\* fails with any other OS code the call returns that error.
C7_ReadByteForgives109AndUncoded ==
    ReadFailed("read_byte") =>
       IF last.eff.os.has_code
       THEN IF last.eff.os.code = BROKEN_PIPE
            THEN last.res.ok /\ last.res.n = 0
            ELSE ~last.res.ok /\ last.res.err = ErrorFrom(last.eff.os)
       ELSE last.res.ok /\ last.res.n = 0

\* read_byte returned Ok(0) although its read failed with an error without
\* an OS code.
C7_Witness ==
    /\ ReadFailed("read_byte")
    /\ ~last.eff.os.has_code
    /\ last.res.ok
    /\ last.res.n = 0

\* C8, as stated: the stream read returns Ok(0) when the underlying read
\* fails with code 109, returns every other failure (also one with no OS
\* code) as an error, and returns the byte count of a successful read.
C8_StreamReadForgivesOnly109 ==
    [][(last'.op = "read" /\ last'.eff.reads = 1) =>
          IF last'.eff.os = NoError
          THEN /\ last'.res.ok
               /\ last'.res.n = Min(last'.arg, Len(stream[pipes[last'.h].path]))
               /\ last'.res.n = Len(stream[pipes[last'.h].path])
                                - Len(stream'[pipes[last'.h].path])
          ELSE IF last'.eff.os.has_code /\ last'.eff.os.code = BROKEN_PIPE
          THEN last'.res.ok /\ last'.res.n = 0
          ELSE ~last'.res.ok /\ last'.res.err = last'.eff.os]_vars

\* C8, amended: the stream read returns Ok(0) when the underlying read fails
\* with code 109 or with an io::Error that carries no OS code, returns a
\* failure with any other OS code as that error, and returns the byte count
\* of a successful read unchanged.
C8_StreamReadForgives109AndUncoded ==
    [][(last'.op = "read" /\ last'.eff.reads = 1) =>
          IF last'.eff.os = NoError
          THEN /\ last'.res.ok
               /\ last'.res.n = Min(last'.arg, Len(stream[pipes[last'.h].path]))
               /\ last'.res.n = Len(stream[pipes[last'.h].path])
                                - Len(stream'[pipes[last'.h].path])
          ELSE IF last'.eff.os.has_code /\ last'.eff.os.code # BROKEN_PIPE
          THEN ~last'.res.ok /\ last'.res.err = last'.eff.os
          ELSE last'.res.ok /\ last'.res.n = 0]_vars

\* The stream read returned Ok(0) although its read failed with an error
\* without an OS code.
C8_Witness ==
    /\ ReadFailed("read")
    /\ ~last.eff.os.has_code
    /\ last.res.ok
    /\ last.res.n = 0

\* C9: a write returns the number of bytes the writer connection accepted
\* when the connect and the write succeed, and returns the error of the
\* connect or of the write whenever one fails, code 109 like any other.
C9_WriteReportsCountOrError ==
    [][last'.op \in WriteOps =>
          IF last'.eff.os = NoError
          THEN /\ last'.res.ok
               /\ last'.eff.writes = 1
               /\ last'.res.n <= last'.arg
               /\ last'.res.n = Len(stream'[pipes[last'.h].path])
                                - Len(stream[pipes[last'.h].path])
          ELSE /\ ~last'.res.ok
               /\ last'.res.err = ErrorFrom(last'.eff.os)
               /\ stream' = stream]_vars

\* A write whose stream.write failed with code 109 returned that error.
C9_Witness ==
    /\ last.op \in WriteOps
    /\ last.eff.writes = 1
    /\ last.eff.os.has_code
    /\ last.eff.os.code = BROKEN_PIPE
    /\ ~last.res.ok
    /\ last.res.err.code = BROKEN_PIPE

\* C10: a successful flush_pipe on a handle with no writer connection leaves
\* the writer connection established, by one connect and with no byte
\* written; a write right after it makes no connect and goes straight to
\* stream.write on that connection, whose result is the result of the write.
C10_FlushConnectsForNextWrite ==
    [][/\ (last'.op = "flush_pipe" /\ ~pipes[last'.h].handle /\ last'.res.ok) =>
             /\ pipes'[last'.h].handle
             /\ last'.eff.connects = 1
             /\ last'.eff.writes = 0
             /\ stream' = stream
       /\ (/\ last.op = "flush_pipe" /\ last.res.ok /\ last.eff.disconnects = 0
           /\ last'.op \in WriteOps /\ last'.h = last.h) =>
             /\ last'.eff.connects = 0
             /\ last'.eff.writes = 1
             /\ pipes'[last'.h].handle
             /\ last'.res.ok <=> last'.eff.os = NoError]_vars

\* flush_pipe succeeded on a handle that had no writer connection, and the
\* handle has one now.
C10_Witness ==
    /\ last.op = "flush_pipe"
    /\ last.res.ok
    /\ last.eff.disconnects = 0
    /\ last.eff.connects = 1
    /\ pipes[last.h].handle
    /\ InFlight = 0

\* ------------------------------------------------------------------- C11
\* o is something the method op can give on the Pipe value p, with st the
\* content of its path's stream, for some argument of the caller of the
\* length or size arg and some outcomes of the OS calls it makes.
Gives(op, arg, p, st, o) ==
    CASE op = "write_byte" ->
           \E b \in DataBytes : \E conn \in Connected(~p.handle) :
              \E wr \in Written(conn.ok, <<b>>) :
                 write_byte(p, b, conn, wr, st) = o
      [] op = "write_bytes" ->
           \E buf \in [1..arg -> DataBytes] : \E conn \in Connected(~p.handle) :
              \E wr \in Written(conn.ok, buf) :
                 write_bytes(p, buf, conn, wr, st) = o
      [] op = "write_string" ->
           \E s \in {t \in SeqsUpTo(Chars, MaxLen) : Len(AsBytes(t)) = arg} :
              \E conn \in Connected(~p.handle) : \E wr \in Written(conn.ok, AsBytes(s)) :
                 write_string(p, s, conn, wr, st) = o
      [] op = "read_byte" ->
           \E bnd \in Connected(~p.listener) : \E acc \in Connected(~p.listener /\ bnd.ok) :
              \E rd \in After(bnd.ok /\ acc.ok) :
                 read_byte(p, bnd, acc, rd, st) = o
      [] op = "read_bytes" ->
           \E bnd \in Connected(~p.listener) : \E acc \in Connected(~p.listener /\ bnd.ok) :
              \E rd \in After(bnd.ok /\ acc.ok /\ Len(VecWithCapacity(arg)) > 0) :
                 read_bytes(p, arg, bnd, acc, rd, st) = o
      [] op = "read_string" ->
           \E bnd \in Connected(~p.listener) : \E acc \in Connected(~p.listener /\ bnd.ok) :
              \E rd \in After(bnd.ok /\ acc.ok /\ Len(VecWithCapacity(arg)) > 0) :
                 read_string(p, arg, bnd, acc, rd, st) = o
      [] op = "read" ->
           \E bnd \in Connected(~p.listener) : \E acc \in Connected(~p.listener /\ bnd.ok) :
              \E rd \in After(bnd.ok /\ acc.ok) :
                 read(p, [i \in 1..arg |-> 0], bnd, acc, rd, st) = o
      [] op = "flush_pipe" ->
           \E conn \in ConnOutcomes : \E fl \in After(conn.ok /\ p.listener) :
              LET r == flush_pipe(p, conn, fl) IN
              [pipe |-> r.pipe, res |-> r.res, stream |-> st, eff |-> r.eff] = o

\* C11: a clone (born with is_closed set) is usable.  Whatever a write, a
\* read or flush_pipe does on a clone -- the slots it leaves, its result, the
\* OS calls it makes, the bytes it moves -- is something the same call does
\* on a Pipe value in the same state whose flag is clear, as a freshly opened
\* one; a successful write leaves the clone its writer connection, a
\* successful read its listener connection; and the flag stays set.
C11_CloneUsableAsFresh ==
    [][(last'.op \in WriteOps \cup ReadOps \cup {"flush_pipe"} /\ made[last'.h] = "Clone") =>
          LET h == last'.h
              fresh == [pipes[h] EXCEPT !.is_closed = FALSE]
          IN /\ pipes[h].is_closed
             /\ pipes'[h].is_closed
             /\ (last'.op \in WriteOps /\ last'.res.ok) => pipes'[h].handle
             /\ (last'.op \in ReadOps /\ last'.res.ok) => pipes'[h].listener
             /\ Gives(last'.op, last'.arg, fresh, StreamOf(h),
                      [pipe |-> [pipes'[h] EXCEPT !.is_closed = FALSE],
                       res |-> last'.res,
                       stream |-> stream'[pipes[h].path],
                       eff |-> last'.eff])]_vars

\* A clone that connected as a writer and wrote a byte has bound, accepted
\* and read that byte back.
C11_Witness ==
    /\ last.op = "read_byte"
    /\ made[last.h] = "Clone"
    /\ pipes[last.h].is_closed
    /\ pipes[last.h].handle
    /\ pipes[last.h].listener
    /\ last.eff.accepts = 1
    /\ last.eff.reads = 1
    /\ last.res.ok
    /\ last.res.n \in DataBytes

\* ------------------------------------------------------------------- C12
\* C12: a Pipe value that goes out of scope with is_closed clear has close()
\* called on it exactly once; one that goes out of scope with is_closed set
\* (it was closed, or it is a clone) has no close() called on it; either way
\* the discard completes, with no error, and touches no other Pipe value.
C12_DropClosesUnlessClosed ==
    [][last'.op = "drop" =>
          LET h == last'.h IN
          /\ h \in live
          /\ h \notin live'
          /\ last'.eff.closes = (IF pipes[h].is_closed THEN 0 ELSE 1)
          /\ (made[h] = "Clone" \/ WasClosed(h)) => last'.eff.closes = 0
          /\ last'.res.ok
          /\ last'.eff.os = NoError
          /\ \A g \in Handles \ {h} : pipes'[g] = pipes[g]
          /\ stream' = stream]_vars

\* A Pipe value that was never closed went out of scope while it held both
\* connections: close() ran once and dropped the two.
C12_Witness ==
    /\ last.op = "drop"
    /\ last.who # "Clone"
    /\ last.eff.closes = 1
    /\ last.eff.disconnects = 2
    /\ last.h \notin live

\* ------------------------------------------------------------------- C13
\* C13: the writer and the listener connection are independent.  A write
\* (write_byte, write_bytes, write_string) neither binds nor accepts and
\* leaves the listener slot and is_closed as they were; a read (read_byte,
\* read_bytes, read_string, the stream read) does not connect and leaves the
\* writer slot and is_closed as they were.
C13_WritesAndReadsKeepTheOtherSlot ==
    [][/\ last'.op \in WriteOps =>
             /\ pipes'[last'.h].listener = pipes[last'.h].listener
             /\ pipes'[last'.h].is_closed = pipes[last'.h].is_closed
             /\ last'.eff.binds = 0
             /\ last'.eff.accepts = 0
             /\ last'.eff.reads = 0
       /\ last'.op \in ReadOps =>
             /\ pipes'[last'.h].handle = pipes[last'.h].handle
             /\ pipes'[last'.h].is_closed = pipes[last'.h].is_closed
             /\ last'.eff.connects = 0
             /\ last'.eff.writes = 0]_vars

\* A read bound and accepted its listener connection on a Pipe value that
\* has no writer connection, and left it without one.
C13_Witness ==
    /\ last.op \in ReadOps
    /\ last.res.ok
    /\ last.eff.accepts = 1
    /\ pipes[last.h].listener
    /\ ~pipes[last.h].handle
    /\ ~pipes[last.h].is_closed

\* ------------------------------------------------------------------- C14
\* C14: connections are established lazily and reused.  A write connects
\* once when the writer slot is absent and not at all when it is filled, a
\* successful write leaves the slot filled, and only flush_pipe and close
\* empty it: so a write that follows a successful write connects no more, and
\* over successful writes with no flush_pipe or close between them there is
\* one connect.  A read binds and accepts once when the listener slot is
\* absent and not at all when it is filled, a successful read leaves the slot
\* filled, and only close empties it: over successful reads with no close
\* between them there is one bind-and-accept.
C14_ConnectOnceThenReuse ==
    [][/\ last'.op \in WriteOps =>
             /\ last'.eff.connects = (IF pipes[last'.h].handle THEN 0 ELSE 1)
             /\ last'.eff.disconnects = 0
             /\ last'.res.ok => pipes'[last'.h].handle
             /\ (last.op \in WriteOps /\ last.h = last'.h /\ last.res.ok) =>
                   last'.eff.connects = 0
       /\ last'.op \in ReadOps =>
             /\ last'.eff.binds = (IF pipes[last'.h].listener THEN 0 ELSE 1)
             /\ last'.eff.accepts <= last'.eff.binds
             /\ last'.eff.disconnects = 0
             /\ last'.res.ok =>
                   /\ pipes'[last'.h].listener
                   /\ last'.eff.accepts = last'.eff.binds
             /\ (last.op \in ReadOps /\ last.h = last'.h /\ last.res.ok) =>
                   /\ last'.eff.binds = 0
                   /\ last'.eff.accepts = 0
       /\ \A h \in live \cap live' :
             /\ (pipes[h].handle /\ ~pipes'[h].handle) =>
                   (last'.h = h /\ last'.op \in {"flush_pipe", "close"})
             /\ (pipes[h].listener /\ ~pipes'[h].listener) =>
                   (last'.h = h /\ last'.op = "close")]_vars

\* A write found the writer connection a write before it had established,
\* and put its byte on the pipe without connecting.
C14_Witness ==
    /\ last.op \in WriteOps
    /\ last.res.ok
    /\ last.res.n = 1
    /\ last.eff.connects = 0
    /\ last.eff.writes = 1
    /\ pipes[last.h].handle
    /\ ~pipes[last.h].is_closed

\* ------------------------------------------------------------------- C15
\* C15: flush_pipe on a Pipe value that has a writer connection drops that
\* connection and connects anew: one disconnect and one connect call.  When
\* the connect call gives the new connection, flush_pipe flushes the
\* listener connection if there is one, once, and flushes nothing if there
\* is none.  flush_pipe never binds or accepts and leaves the listener slot
\* as it was.
C15_FlushReconnectsAndFlushesListener ==
    [][last'.op = "flush_pipe" =>
          LET h == last'.h
              e == last'.eff
          IN /\ pipes[h].handle =>
                   /\ e.disconnects = 1
                   /\ e.connects = 1
                   /\ pipes'[h].handle =>
                         e.flushes = (IF pipes[h].listener THEN 1 ELSE 0)
             /\ ~pipes[h].listener => e.flushes = 0
             /\ e.binds = 0
             /\ e.accepts = 0
             /\ pipes'[h].listener = pipes[h].listener
             /\ stream' = stream]_vars

\* flush_pipe replaced the writer connection of a Pipe value that also has a
\* listener connection, and flushed the listener.
C15_Witness ==
    /\ last.op = "flush_pipe"
    /\ last.res.ok
    /\ last.eff.disconnects = 1
    /\ last.eff.connects = 1
    /\ last.eff.flushes = 1
    /\ pipes[last.h].handle
    /\ pipes[last.h].listener

\* ------------------------------------------------------------------- C16
\* C16: is_closed only ever goes from clear to set.  A Pipe value whose flag
\* is set keeps it set through every step it stays in scope for (a read, a
\* write, flush_pipe, close, a clone taken of it, the discard of another
\* value), the clone taken of it has the flag set too, and a value that is
\* discarded has the flag set when its fields are released.
C16_ClosedFlagMonotone ==
    [][/\ \A h \in live \cap live' : pipes[h].is_closed => pipes'[h].is_closed
       /\ (last'.op = "clone" /\ pipes[last'.h].is_closed) =>
             /\ pipes'[last'.h].is_closed
             /\ pipes'[last'.new].is_closed
       /\ last'.op = "drop" => drop(pipes[last'.h]).pipe.is_closed]_vars

\* flush_pipe and a read have connected a Pipe value whose flag is set both
\* ways, and the flag is still set.
C16_Witness ==
    /\ last.op = "flush_pipe"
    /\ last.res.ok
    /\ last.h \in live
    /\ pipes[last.h].is_closed
    /\ pipes[last.h].handle
    /\ pipes[last.h].listener
    /\ last.eff.flushes = 1

\* ------------------------------------------------------------------- C17
\* C17: open succeeds and makes no OS call; the Pipe value it gives has a
\* path of the caller, no writer connection, no listener connection and
\* is_closed clear; and no step changes the path of a Pipe value that stays
\* in scope.
C17_OpenIsPureAndPathIsFixed ==
    [][/\ last'.op = "open" =>
             /\ last'.res.ok
             /\ last'.eff = NoEff
             /\ last'.new \in live' \ live
             /\ pipes'[last'.new].path \in Paths
             /\ ~pipes'[last'.new].handle
             /\ ~pipes'[last'.new].listener
             /\ ~pipes'[last'.new].is_closed
             /\ stream' = stream
       /\ \A h \in live \cap live' : pipes'[h].path = pipes[h].path]_vars

\* open has just given a Pipe value: no connection, flag clear, while bytes
\* an earlier Pipe value wrote are still on the path.
C17_Witness ==
    /\ last.op = "open"
    /\ last.new \in live
    /\ pipes[last.new] = open("pipe_a", "Delete")
    /\ made[last.new] = "Delete"
    /\ InFlight = 1

\* ------------------------------------------------------------------- C18
\* C18: a failed lazy connection is reported and leaves the Pipe value as it
\* was.  A write that finds no writer connection and leaves none (its
\* connect failed) made one connect call and no write call, returns the
\* error of that call, and changes neither the Pipe value nor the stream; a
\* read that finds no listener connection and leaves none (its bind or its
\* accept failed) made one bind call, at most one accept call and no read
\* call, returns an error (for the methods of Pipe, the error of that call)
\* and changes neither the Pipe value nor the stream.  The next write, or
\* read, on the Pipe value makes the connection attempt again.
C18_FailedConnectionIsReported ==
    [][/\ (last'.op \in WriteOps /\ ~pipes[last'.h].handle /\ ~pipes'[last'.h].handle) =>
             /\ ~last'.res.ok
             /\ last'.eff.os # NoError
             /\ last'.res.err = ErrorFrom(last'.eff.os)
             /\ last'.eff.connects = 1
             /\ last'.eff.writes = 0
             /\ pipes' = pipes
             /\ stream' = stream
       /\ (last'.op \in ReadOps /\ ~pipes[last'.h].listener /\ ~pipes'[last'.h].listener) =>
             /\ ~last'.res.ok
             /\ last'.eff.os # NoError
             /\ last'.op # "read" => last'.res.err = ErrorFrom(last'.eff.os)
             /\ last'.eff.binds = 1
             /\ last'.eff.accepts <= 1
             /\ last'.eff.reads = 0
             /\ pipes' = pipes
             /\ stream' = stream
       /\ (/\ last.op \in WriteOps /\ ~last.res.ok /\ last.eff.writes = 0
           /\ last'.op \in WriteOps /\ last'.h = last.h) =>
             last'.eff.connects = 1
       /\ (/\ last.op \in ReadOps /\ ~last.res.ok /\ last.eff.reads = 0
           /\ last.eff.binds = 1
           /\ last'.op \in ReadOps /\ last'.h = last.h) =>
             last'.eff.binds = 1]_vars

\* A read bound the pipe, the accept failed, and the Pipe value is left
\* without a listener connection.
C18_Witness ==
    /\ last.op \in ReadOps
    /\ ~last.res.ok
    /\ last.eff.binds = 1
    /\ last.eff.accepts = 1
    /\ last.eff.reads = 0
    /\ last.eff.os # NoError
    /\ ~pipes[last.h].listener

\* ------------------------------------------------------------------- C19
\* C19: flush_pipe is not atomic.  On a Pipe value that has a writer
\* connection, a flush_pipe that fails before any flush call (its connect
\* was refused) has dropped the old connection, made one connect call,
\* returns the error of that call and leaves the writer slot absent, with
\* the listener slot and is_closed as they were; and whenever flush_pipe
\* leaves the writer slot of such a value absent, it has failed and has not
\* flushed the listener.
C19_FlushFailureLosesWriter ==
    [][(last'.op = "flush_pipe" /\ pipes[last'.h].handle) =>
          LET h == last'.h
              e == last'.eff
          IN /\ (~last'.res.ok /\ e.flushes = 0) =>
                   /\ ~pipes'[h].handle
                   /\ e.disconnects = 1
                   /\ e.connects = 1
                   /\ e.os # NoError
                   /\ last'.res.err = ErrorFrom(e.os)
                   /\ pipes'[h].listener = pipes[h].listener
                   /\ pipes'[h].is_closed = pipes[h].is_closed
                   /\ pipes'[h].path = pipes[h].path
             /\ ~pipes'[h].handle =>
                   /\ ~last'.res.ok
                   /\ e.flushes = 0]_vars

\* flush_pipe failed on a Pipe value that had both connections: the writer
\* connection is gone, the listener connection is there and was not flushed.
C19_Witness ==
    /\ last.op = "flush_pipe"
    /\ ~last.res.ok
    /\ last.eff.disconnects = 1
    /\ last.eff.connects = 1
    /\ last.eff.flushes = 0
    /\ ~pipes[last.h].handle
    /\ pipes[last.h].listener

====
